---- MODULE Spec2Model ----
(***************************************************************************)
(* A model of src/app.js: the SavingsCalculator class, its input           *)
(* sanitizer and validator, its projection (calculate), and the timers     *)
(* (debounce, reset delay, display delay) that connect them.               *)
(*                                                                         *)
(* JavaScript numbers are modelled as exact rationals extended with        *)
(* Infinity and NaN (what a division by zero yields); the rationals carry  *)
(* arbitrary-precision numerators and denominators, because TLC's own      *)
(* integers are 32 bits wide and (1 + 7/1200)^60 is not.  Rounding error   *)
(* of IEEE doubles is outside the model.                                   *)
(***************************************************************************)
EXTENDS Integers, Sequences, FiniteSets, TLC

(***************************************************************************)
(* Natural numbers of any size: a sequence of limbs, least significant     *)
(* first, without leading zero limbs; <<>> is zero.                        *)
(***************************************************************************)
Base == 10 * 10 * 10

RECURSIVE BigOfInt(_)
BigOfInt(n) == IF n = 0 THEN <<>> ELSE <<n % Base>> \o BigOfInt(n \div Base)

RECURSIVE BigTrim(_)
BigTrim(a) ==
    IF a = <<>> THEN a
    ELSE IF a[Len(a)] = 0 THEN BigTrim(SubSeq(a, 1, Len(a) - 1)) ELSE a

BigLimb(a, i) == IF i >= 1 /\ i <= Len(a) THEN a[i] ELSE 0

BigMaxLen(a, b) == IF Len(a) >= Len(b) THEN Len(a) ELSE Len(b)

\* Carries through the columns lo..hi of cols, the carry c coming in: the
\* limbs and the carry going out.  (All the recursions over limbs halve their
\* range, so that their depth is the logarithm of the length.)
RECURSIVE BigCarry(_, _, _, _)
BigCarry(cols, lo, hi, c) ==
    IF lo > hi THEN [out |-> <<>>, carry |-> c]
    ELSE IF lo = hi
    THEN LET v == cols[lo] + c
         IN  [out |-> <<v % Base>>, carry |-> v \div Base]
    ELSE LET mid == (lo + hi) \div 2
             l   == BigCarry(cols, lo, mid, c)
             r   == BigCarry(cols, mid + 1, hi, l.carry)
         IN  [out |-> l.out \o r.out, carry |-> r.carry]

BigCarried(cols, n) ==
    LET r == BigCarry(cols, 1, n, 0) IN r.out \o BigOfInt(r.carry)

BigAdd(a, b) ==
    BigCarried([i \in 1..BigMaxLen(a, b) |-> BigLimb(a, i) + BigLimb(b, i)],
               BigMaxLen(a, b))

\* -1, 0, 1 as a < b, a = b, a > b, on the limbs lo..hi of two numbers of
\* one length.
RECURSIVE BigCmpRange(_, _, _, _)
BigCmpRange(a, b, lo, hi) ==
    IF lo > hi THEN 0
    ELSE IF lo = hi
    THEN IF a[lo] < b[lo] THEN -1 ELSE IF a[lo] > b[lo] THEN 1 ELSE 0
    ELSE LET mid == (lo + hi) \div 2
             top == BigCmpRange(a, b, mid + 1, hi)
         IN  IF top # 0 THEN top ELSE BigCmpRange(a, b, lo, mid)

BigCmp(a, b) ==
    IF Len(a) < Len(b) THEN -1
    ELSE IF Len(a) > Len(b) THEN 1
    ELSE BigCmpRange(a, b, 1, Len(a))

\* a - b for a >= b: borrows through the limbs lo..hi, as BigCarry.
RECURSIVE BigBorrow(_, _, _, _, _)
BigBorrow(a, b, lo, hi, c) ==
    IF lo > hi THEN [out |-> <<>>, carry |-> c]
    ELSE IF lo = hi
    THEN LET v == a[lo] - BigLimb(b, lo) - c
         IN  IF v < 0 THEN [out |-> <<v + Base>>, carry |-> 1]
             ELSE [out |-> <<v>>, carry |-> 0]
    ELSE LET mid == (lo + hi) \div 2
             l   == BigBorrow(a, b, lo, mid, c)
             r   == BigBorrow(a, b, mid + 1, hi, l.carry)
         IN  [out |-> l.out \o r.out, carry |-> r.carry]

BigSub(a, b) == BigTrim(BigBorrow(a, b, 1, Len(a), 0).out)

\* The k-th column of the schoolbook product: the sum over i in lo..hi of
\* a[i] * b[k + 1 - i].
RECURSIVE BigColumn(_, _, _, _, _)
BigColumn(a, b, k, lo, hi) ==
    IF lo > hi THEN 0
    ELSE IF lo = hi THEN a[lo] * b[k + 1 - lo]
    ELSE IF lo + 1 = hi THEN a[lo] * b[k + 1 - lo] + a[hi] * b[k + 1 - hi]
    ELSE IF lo + 2 = hi
    THEN a[lo] * b[k + 1 - lo] + a[lo + 1] * b[k - lo] + a[hi] * b[k + 1 - hi]
    ELSE LET mid == (lo + hi) \div 2
         IN  BigColumn(a, b, k, lo, mid) + BigColumn(a, b, k, mid + 1, hi)

BigMul(a, b) ==
    IF a = <<>> \/ b = <<>> THEN <<>>
    ELSE IF a = <<1>> THEN b
    ELSE IF b = <<1>> THEN a
    ELSE BigCarried([k \in 1..(Len(a) + Len(b) - 1) |->
                        LET lo == IF k + 1 - Len(b) > 1 THEN k + 1 - Len(b) ELSE 1
                            hi == IF k < Len(a) THEN k ELSE Len(a)
                        IN  BigColumn(a, b, k, lo, hi)],
                    Len(a) + Len(b) - 1)

\* The value as an integer, for a number below Base^3.
BigSmall(a) == Len(a) <= 3

BigToInt(a) == BigLimb(a, 1) + Base * BigLimb(a, 2) + Base * Base * BigLimb(a, 3)

\* floor(a / b) for b > 0, by bisection on the quotient in lo..hi.
RECURSIVE BigQuot(_, _, _, _)
BigQuot(a, b, lo, hi) ==
    IF lo >= hi THEN lo
    ELSE LET mid == (lo + hi + 1) \div 2
         IN  IF BigCmp(BigMul(BigOfInt(mid), b), a) <= 0
             THEN BigQuot(a, b, mid, hi)
             ELSE BigQuot(a, b, lo, mid - 1)

RECURSIVE Gcd(_, _)
Gcd(a, b) == IF b = 0 THEN a ELSE Gcd(b, a % b)

(***************************************************************************)
(* JavaScript numbers: a finite value is the rational (-1)^neg * n / d     *)
(* with n, d naturals of any size and d > 0; Infinity and NaN arise from   *)
(* a division by zero and from a failed parse.                             *)
(***************************************************************************)
NaN == [k |-> "nan", neg |-> FALSE, n |-> <<>>, d |-> <<1>>]

Infinity == [k |-> "inf", neg |-> FALSE, n |-> <<1>>, d |-> <<>>]

\* A finite value in a fixed form: zero is 0/1, and a fraction whose terms
\* both fit a machine integer is in lowest terms.
Fin(neg, n, d) ==
    IF n = <<>> THEN [k |-> "fin", neg |-> FALSE, n |-> <<>>, d |-> <<1>>]
    ELSE IF BigSmall(n) /\ BigSmall(d)
    THEN LET g == Gcd(BigToInt(n), BigToInt(d))
         IN  [k |-> "fin", neg |-> neg,
              n |-> BigOfInt(BigToInt(n) \div g), d |-> BigOfInt(BigToInt(d) \div g)]
    ELSE [k |-> "fin", neg |-> neg, n |-> n, d |-> d]

Num(i) == IF i < 0 THEN Fin(TRUE, BigOfInt(-i), <<1>>) ELSE Fin(FALSE, BigOfInt(i), <<1>>)

Zero == Num(0)

isNaN(x) == x.k = "nan"

isFinite(x) == x.k = "fin"

IsZero(x) == x.k = "fin" /\ x.n = <<>>

\* -1, 0, 1 as |x| < |y|, |x| = |y|, |x| > |y|, for finite x and y.
MagCmp(x, y) == BigCmp(BigMul(x.n, y.d), BigMul(y.n, x.d))

\* -1, 0, 1 as x < y, x = y, x > y, for x and y other than NaN.
Cmp(x, y) ==
    IF x.k = "inf" \/ y.k = "inf"
    THEN LET rx == IF x.k = "fin" THEN 0 ELSE IF x.neg THEN -1 ELSE 1
             ry == IF y.k = "fin" THEN 0 ELSE IF y.neg THEN -1 ELSE 1
         IN  IF rx < ry THEN -1 ELSE IF rx > ry THEN 1 ELSE 0
    ELSE IF x.neg /\ ~y.neg THEN -1
    ELSE IF ~x.neg /\ y.neg THEN 1
    ELSE IF x.neg THEN MagCmp(y, x)
    ELSE MagCmp(x, y)

\* The relational operators <, <=, >, >= and ===: false when an operand is NaN.
Lt(x, y) == ~isNaN(x) /\ ~isNaN(y) /\ Cmp(x, y) < 0

Le(x, y) == ~isNaN(x) /\ ~isNaN(y) /\ Cmp(x, y) <= 0

Gt(x, y) == Lt(y, x)

Ge(x, y) == Le(y, x)

NumEq(x, y) == ~isNaN(x) /\ ~isNaN(y) /\ Cmp(x, y) = 0

\* x + y, x - y, x * y for finite operands.
Negate(x) == IF IsZero(x) THEN x ELSE [x EXCEPT !.neg = ~x.neg]

NumAdd(x, y) ==
    LET xs == BigMul(x.n, y.d)
        ys == BigMul(y.n, x.d)
        c  == BigCmp(xs, ys)
    IN  IF x.neg = y.neg THEN Fin(x.neg, BigAdd(xs, ys), BigMul(x.d, y.d))
        ELSE IF c = 0 THEN Zero
        ELSE IF c > 0 THEN Fin(x.neg, BigSub(xs, ys), BigMul(x.d, y.d))
        ELSE Fin(y.neg, BigSub(ys, xs), BigMul(x.d, y.d))

NumSub(x, y) == NumAdd(x, Negate(y))

NumMul(x, y) == Fin(x.neg # y.neg, BigMul(x.n, y.n), BigMul(x.d, y.d))

\* x / y for finite operands: 0 / 0 is NaN, and x / 0 is Infinity with x's sign.
NumDiv(x, y) ==
    IF IsZero(y)
    THEN IF IsZero(x) THEN NaN ELSE [Infinity EXCEPT !.neg = x.neg]
    ELSE Fin(x.neg # y.neg, BigMul(x.n, y.d), BigMul(x.d, y.n))

\* Math.max and Math.min of two numbers other than NaN.
MathMax(x, y) == IF Lt(x, y) THEN y ELSE x

MathMin(x, y) == IF Lt(y, x) THEN y ELSE x

MathAbs(x) == [x EXCEPT !.neg = FALSE]

\* x || y: x unless it is falsy (0 or NaN).
OrElse(x, y) == IF isNaN(x) \/ IsZero(x) THEN y ELSE x

\* b^e for a natural b of any size and an integer e >= 0, by squaring.
RECURSIVE BigPow(_, _)
BigPow(b, e) ==
    IF e = 0 THEN <<1>>
    ELSE LET h == BigPow(b, e \div 2)
             s == BigMul(h, h)
         IN  IF e % 2 = 1 THEN BigMul(s, b) ELSE s

\* Math.pow(x, y) for a finite x >= 0 and a whole y >= 0.  A fractional
\* exponent has an irrational result: no case matches, and TLC stops.
IsWhole(y) == y.k = "fin" /\ ~y.neg /\ y.d = <<1>> /\ BigSmall(y.n)

MathPow(x, y) ==
    CASE IsWhole(y) /\ isFinite(x) /\ ~x.neg ->
        Fin(FALSE, BigPow(x.n, BigToInt(y.n)), BigPow(x.d, BigToInt(y.n)))

\* Math.round(x) for a finite x >= 0 below Base^3: floor(x + 1/2).
MathRound(x) ==
    LET num == BigAdd(BigMul(<<2>>, x.n), x.d)
        den == BigMul(<<2>>, x.d)
    IN  Fin(FALSE, BigOfInt(BigQuot(num, den, 0, Base * Base * Base - 1)), <<1>>)

(***************************************************************************)
(* Text: the value of an input element is a sequence of characters.        *)
(***************************************************************************)
DigitChars == <<"0", "1", "2", "3", "4", "5", "6", "7", "8", "9">>

IsDigit(c) == \E i \in 1..10 : DigitChars[i] = c

DigitValue(c) == (CHOOSE i \in 1..10 : DigitChars[i] = c) - 1

\* The index of the last character of the run of digits that starts at i
\* (i - 1 when t[i] is no digit).
RECURSIVE DigitRun(_, _)
DigitRun(t, i) == IF i <= Len(t) /\ IsDigit(t[i]) THEN DigitRun(t, i + 1) ELSE i - 1

\* The natural number a sequence of digits writes.
RECURSIVE DigitsValue(_)
DigitsValue(t) ==
    IF t = <<>> THEN <<>>
    ELSE BigAdd(BigMul(DigitsValue(SubSeq(t, 1, Len(t) - 1)), <<10>>),
                BigOfInt(DigitValue(t[Len(t)])))

\* parseFloat: the longest prefix that reads [sign] digits [. digits], NaN
\* when it holds no digit.  Exponents, white space and the word Infinity are
\* not in the alphabet of the model's texts.
parseFloat(t) ==
    LET signed  == t # <<>> /\ t[1] \in {"-", "+"}
        start   == IF signed THEN 2 ELSE 1
        intEnd  == DigitRun(t, start)
        hasDot  == intEnd < Len(t) /\ t[intEnd + 1] = "."
        fracEnd == IF hasDot THEN DigitRun(t, intEnd + 2) ELSE intEnd
        nFrac   == IF hasDot THEN fracEnd - intEnd - 1 ELSE 0
        digits  == SubSeq(t, start, intEnd) \o SubSeq(t, intEnd + 2, fracEnd)
    IN  IF digits = <<>> THEN NaN
        ELSE Fin(signed /\ t[1] = "-", DigitsValue(digits), BigPow(<<10>>, nFrac))

(***************************************************************************)
(* The four input elements and what calculate() reads from them.           *)
(***************************************************************************)
Fields == {"goalAmount", "timeHorizon", "annualReturn", "currentSavings"}

getInputValues(val) ==
    [goalAmount     |-> MathMax(Zero, OrElse(parseFloat(val["goalAmount"]), Zero)),
     timeHorizon    |-> MathMax(Zero, OrElse(parseFloat(val["timeHorizon"]), Zero)),
     annualReturn   |-> MathMax(Zero, OrElse(parseFloat(val["annualReturn"]), Zero)),
     currentSavings |-> MathMax(Zero, OrElse(parseFloat(val["currentSavings"]), Zero))]

\* A variant of degenerateResults whose savings are capped by the goal.
degenerateCapped(in) ==
    [monthlyPayment     |-> Zero,
     totalSaved         |-> MathMin(in.currentSavings, in.goalAmount),
     interestEarned     |-> Zero,
     finalAmount        |-> in.goalAmount,
     progressPercentage |-> Zero]

\* The record calculate() shows when goalAmount <= 0 or timeHorizon <= 0.
degenerateResults(in) ==
    [monthlyPayment     |-> Zero,
     totalSaved         |-> in.currentSavings,
     interestEarned     |-> Zero,
     finalAmount        |-> in.goalAmount,
     progressPercentage |-> Zero]

\* A variant of effectiveCurrentSavings without the cap.
uncappedCurrentSavings(in) == in.currentSavings

effectiveCurrentSavings(in) == MathMin(in.currentSavings, in.goalAmount)

\* Math.pow(1 + monthlyRate, totalMonths)
growth(monthlyRate, totalMonths) == MathPow(NumAdd(Num(1), monthlyRate), totalMonths)

\* A variant of requiredFromPayments that grows with what the savings will
\* be worth.
requiredPlusSavings(goalAmount, futureValueOfCurrentSavings) ==
    MathMax(Zero, NumAdd(goalAmount, futureValueOfCurrentSavings))

requiredFromPayments(goalAmount, futureValueOfCurrentSavings) ==
    MathMax(Zero, NumSub(goalAmount, futureValueOfCurrentSavings))

\* A variant of noInterestPayment that spreads the payment over the years
\* instead of the months.
noInterestPaymentPerYear(required, totalMonths) ==
    NumDiv(required, NumDiv(totalMonths, Num(12)))

\* The payment of the 'No interest case'.
noInterestPayment(required, totalMonths) == NumDiv(required, totalMonths)

\* A variant of interestEarned that takes no principal off.
interestAsFutureValue(totalFutureValue, totalPrincipal) ==
    MathMax(Zero, totalFutureValue)

interestEarned(totalFutureValue, totalPrincipal) ==
    MathMax(Zero, NumSub(totalFutureValue, totalPrincipal))

\* calculate() from line 190 on, one operator per group of statements; each
\* hands the values computed so far to the next.  pow is
\* Math.pow(1 + monthlyRate, totalMonths), which the code computes wherever
\* the rate is positive.

\* Lines 197-203.
futureValueOfCurrentSavings(annualReturn, savings, pow) ==
    IF Gt(savings, Zero)
    THEN IF Gt(annualReturn, Zero) THEN NumMul(savings, pow) ELSE savings
    ELSE Zero

\* Lines 208-223.
monthlyPayment(annualReturn, monthlyRate, totalMonths, pow, required) ==
    LET computedPayment ==
            IF Gt(required, Zero)
            THEN IF Gt(annualReturn, Zero) /\ Gt(monthlyRate, Zero)
                 THEN NumDiv(required, NumDiv(NumSub(pow, Num(1)), monthlyRate))
                 ELSE noInterestPayment(required, totalMonths)
            ELSE Zero
    IN  IF ~isFinite(computedPayment) \/ isNaN(computedPayment)
               \/ Lt(computedPayment, Zero)
        THEN Zero
        ELSE computedPayment

\* Lines 230-235.
totalInterestEarned(annualReturn, monthlyRate, pow, futureValue, payment, totalPrincipal) ==
    IF Gt(annualReturn, Zero)
    THEN interestEarned(
             NumAdd(futureValue,
                    IF Gt(payment, Zero)
                    THEN NumMul(payment, NumDiv(NumSub(pow, Num(1)), monthlyRate))
                    ELSE Zero),
             totalPrincipal)
    ELSE Zero

\* Lines 237-246.
projection(goalAmount, payment, totalPrincipal, interest) ==
    [monthlyPayment     |-> payment,
     totalSaved         |-> totalPrincipal,
     interestEarned     |-> interest,
     finalAmount        |-> goalAmount,
     progressPercentage |->
         IF Gt(goalAmount, Zero)
         THEN MathMin(Num(100),
                      NumMul(NumDiv(NumAdd(totalPrincipal, interest), goalAmount),
                             Num(100)))
         ELSE Zero]

\* Lines 226-246.
fromPayment(goalAmount, annualReturn, monthlyRate, pow, futureValue, payment, totalPrincipal) ==
    projection(goalAmount, payment, totalPrincipal,
               totalInterestEarned(annualReturn, monthlyRate, pow, futureValue, payment,
                                   totalPrincipal))

\* Lines 205-246.
fromFutureValue(goalAmount, annualReturn, savings, monthlyRate, totalMonths, pow, futureValue, payment) ==
    fromPayment(goalAmount, annualReturn, monthlyRate, pow, futureValue, payment,
                NumAdd(savings, NumMul(payment, totalMonths)))

\* Lines 193-246.
fromSavings(goalAmount, annualReturn, savings, monthlyRate, totalMonths, pow, futureValue) ==
    fromFutureValue(goalAmount, annualReturn, savings, monthlyRate, totalMonths, pow,
                    futureValue,
                    monthlyPayment(annualReturn, monthlyRate, totalMonths, pow,
                                   requiredFromPayments(goalAmount, futureValue)))

\* Lines 187-246.
fromRate(goalAmount, annualReturn, savings, monthlyRate, totalMonths, pow) ==
    fromSavings(goalAmount, annualReturn, savings, monthlyRate, totalMonths, pow,
                futureValueOfCurrentSavings(annualReturn, savings, pow))

fromInputs(goalAmount, annualReturn, savings, monthlyRate, totalMonths) ==
    fromRate(goalAmount, annualReturn, savings, monthlyRate, totalMonths,
             growth(monthlyRate, totalMonths))

\* The record calculate() hands to displayResults().
calculate(in) ==
    IF Le(in.goalAmount, Zero) \/ Le(in.timeHorizon, Zero)
    THEN degenerateResults(in)
    ELSE fromInputs(in.goalAmount, in.annualReturn, effectiveCurrentSavings(in),
                    NumDiv(NumDiv(in.annualReturn, Num(100)), Num(12)),
                    NumMul(in.timeHorizon, Num(12)))

\* formatCurrency: the whole number of dollars the text shows ('$0' for NaN
\* and Infinity); Intl.NumberFormat's digit grouping is outside the model.
formatCurrency(amount) ==
    IF isNaN(amount) \/ ~isFinite(amount) THEN Zero
    ELSE MathRound(MathAbs(amount))

(***************************************************************************)
(* The program's state.                                                    *)
(*   value               the text of each input element                    *)
(*   errorClass          whether the element's classList holds 'error'     *)
(*   errorDiv            the element's .error-message div                  *)
(*   timers              the pending setTimeout callbacks, oldest first    *)
(*   calculationTimeout  this.calculationTimeout, a timer id (0 before the *)
(*                       first keystroke: undefined)                       *)
(*   shown               the text of the four result elements and the      *)
(*                       width given to the progress bar                   *)
(* A specification of one function alone holds its input in arg and what   *)
(* it returned in ret.                                                     *)
(***************************************************************************)
VARIABLES value, errorClass, errorDiv, timers, calculationTimeout, shown, arg, ret

vars == <<value, errorClass, errorDiv, timers, calculationTimeout, shown, arg, ret>>

pageVars == <<value, errorClass, errorDiv, timers, calculationTimeout, shown>>

\* The most callbacks pending at once that the model follows.
MaxPending == 2

\* The longest raw text the sanitizer is tried on.
MaxRawLen == 5

setDefaultValues ==
    [goalAmount     |-> <<"5", "0", "0", "0", "0">>,
     timeHorizon    |-> <<"5">>,
     annualReturn   |-> <<"7">>,
     currentSavings |-> <<"0">>]

(***************************************************************************)
(* sanitizeInput                                                           *)
(***************************************************************************)
IsNumericChar(c) == IsDigit(c) \/ c = "."

\* value.split('.')
RECURSIVE Split(_)
Split(t) ==
    IF \E i \in 1..Len(t) : t[i] = "."
    THEN LET i == CHOOSE j \in 1..Len(t) : t[j] = "." /\ \A h \in 1..(j - 1) : t[h] # "."
         IN  <<SubSeq(t, 1, i - 1)>> \o Split(SubSeq(t, i + 1, Len(t)))
    ELSE <<t>>

\* parts.join('')
RECURSIVE Join(_)
Join(parts) == IF parts = <<>> THEN <<>> ELSE Head(parts) \o Join(Tail(parts))

\* s.substring(0, n)
Substring0(s, n) == SubSeq(s, 1, IF Len(s) < n THEN Len(s) ELSE n)

\* The text sanitizeInput leaves in the element `input` that holds `raw`.
sanitizeInput(input, raw) ==
    LET stripped == SelectSeq(raw, IsNumericChar)
        parts    == Split(stripped)
        oneDot   == IF Len(parts) > 2
                    THEN parts[1] \o <<".">> \o Join(Tail(parts))
                    ELSE stripped
    IN  IF input = "annualReturn" /\ Len(parts) = 2
        THEN parts[1] \o <<".">> \o Substring0(parts[2], 2)
        ELSE oneDot

(***************************************************************************)
(* validateInput, showErrorMessage, hideErrorMessage, clearErrorStates     *)
(***************************************************************************)
NoErrorDiv == [exists |-> FALSE, textContent |-> <<>>, show |-> FALSE]

showErrorMessage(div, input, message) ==
    [div EXCEPT ![input] = [exists |-> TRUE, textContent |-> message, show |-> TRUE]]

hideErrorMessage(div, input) ==
    IF div[input].exists THEN [div EXCEPT ![input].show = FALSE] ELSE div

\* What input.getAttribute(name) may return: null when the markup gives the
\* input no such attribute (parseFloat reads null as the text "null"), or
\* the attribute's text.  A min of "0" reads as no min does.
Attributes(name) ==
    IF name = "min" THEN {<<"n", "u", "l", "l">>}
                    ELSE {<<"n", "u", "l", "l">>, <<"1", "2", "0", "0">>}

\* What validateInput leaves and returns, the input's min and max attributes
\* being minAttr and maxAttr.
validateInput(input, minAttr, maxAttr, val, cls, div) ==
    LET v   == parseFloat(val[input])
        min == OrElse(parseFloat(minAttr), Zero)
        max == OrElse(parseFloat(maxAttr), Infinity)
        failed(message) ==
            [value |-> val, errorClass |-> [cls EXCEPT ![input] = TRUE],
             errorDiv |-> showErrorMessage(div, input, message), ret |-> FALSE]
    IN  IF val[input] = <<>>
        THEN IF input = "currentSavings"
             THEN [value |-> [val EXCEPT ![input] = <<"0">>], errorClass |-> cls,
                   errorDiv |-> div, ret |-> TRUE]
             ELSE failed(<<"Please enter a value">>)
        ELSE IF isNaN(v) THEN failed(<<"Please enter a valid number">>)
        ELSE IF Lt(v, min) THEN failed(<<"Value must be at least", min>>)
        ELSE IF Gt(v, max) THEN failed(<<"Value must be no more than", max>>)
        ELSE [value |-> val, errorClass |-> [cls EXCEPT ![input] = FALSE],
              errorDiv |-> hideErrorMessage(div, input), ret |-> TRUE]

\* A variant of clearErrorClasses that removes no class.
keepErrorClasses(cls) == cls

clearErrorClasses(cls) == [input \in Fields |-> FALSE]

clearErrorDivs(div) ==
    [input \in Fields |-> IF div[input].exists
                          THEN [div[input] EXCEPT !.show = FALSE]
                          ELSE div[input]]

(***************************************************************************)
(* The texts the model lets the user leave in each input (typed or         *)
(* pasted, before sanitizeInput runs), and the example buttons' data.      *)
(***************************************************************************)
Typed(input) ==
    CASE input = "goalAmount"     -> {<<>>}
      [] input = "timeHorizon"    -> {<<"5", " ">>}
      [] input = "annualReturn"   -> {<<"7", "%">>}
      [] input = "currentSavings" -> {<<>>, <<".">>, <<"5", "0">>}

\* The data-goal, data-time and data-return of the page's example buttons.
ExampleButtons ==
    {[goal |-> <<"1", "2", "0", "0">>, time |-> <<"5">>, return |-> <<"7">>]}

\* Every text an input can come to hold.
FieldTexts(input) ==
    {setDefaultValues[input]} \cup {sanitizeInput(input, raw) : raw \in Typed(input)}
    \cup (CASE input = "goalAmount"     -> {b.goal : b \in ExampleButtons}
            [] input = "timeHorizon"    -> {b.time : b \in ExampleButtons}
            [] input = "annualReturn"   -> {b.return : b \in ExampleButtons}
            [] input = "currentSavings" -> {<<"0">>})

PageTexts ==
    [goalAmount : FieldTexts("goalAmount"), timeHorizon : FieldTexts("timeHorizon"),
     annualReturn : FieldTexts("annualReturn"),
     currentSavings : FieldTexts("currentSavings")]

\* The inputs calculate() is tried on alone: every combination of a few
\* texts, and the two worked examples.
CalcArgs ==
    [goalAmount     : {<<>>, <<"0">>, <<"1", "0", "0">>, <<"1", "2", "0", "0">>},
     timeHorizon    : {<<>>, <<"0", ".", "2", "5">>, <<"0", ".", "5">>, <<"1">>},
     annualReturn   : {<<"0">>, <<"7">>, <<"6", "0", "0">>, <<"1", "2", "0", "0">>},
     currentSavings : {<<>>, <<"0">>, <<"5", "0">>, <<"1", "0", "0">>,
                       <<"3", "0", "0">>, <<"2", "0", "0", "0">>}]
    \cup {setDefaultValues,
          [goalAmount |-> <<"1", "0", "0", "0", "0">>, timeHorizon |-> <<"2">>,
           annualReturn |-> <<"0">>, currentSavings |-> <<"2", "0", "0", "0">>]}

\* calculate() and the display callback, tabulated over the inputs the
\* model reaches, so that each projection is computed once.
InputSpace == {getInputValues(v) : v \in PageTexts \cup CalcArgs}

Projection == [in \in InputSpace |-> calculate(in)]

\* What the callback of displayResults writes: the four texts and the
\* number in the width given to the progress bar.
render(results) ==
    [monthlyPayment |-> formatCurrency(results.monthlyPayment),
     totalSaved     |-> formatCurrency(results.totalSaved),
     interestEarned |-> formatCurrency(results.interestEarned),
     finalAmount    |-> formatCurrency(results.finalAmount),
     width          |-> NumDiv(NumMul(results.totalSaved, Num(100)), results.finalAmount)]

Rendered == [r \in {Projection[in] : in \in InputSpace} |-> render(r)]

(***************************************************************************)
(* Timers.  The model keeps no clock.  Of two pending callbacks the one    *)
(* set first runs first, unless its delay is the longer: then either may   *)
(* run first, as the time between the two setTimeout calls decides.  The   *)
(* timers that only restyle the page (select on focus, the example         *)
(* button's transform, the scroll, the removal of 'updating') are left out.*)
(***************************************************************************)
Delay(kind) ==
    CASE kind = "calculate" -> 150
      [] kind = "display"   -> 50
      [] kind = "clearAll"  -> 300

NoResults == [monthlyPayment |-> NaN, totalSaved |-> NaN, interestEarned |-> NaN,
              finalAmount |-> NaN, progressPercentage |-> NaN]

\* A timer id no pending timer has and that this.calculationTimeout does not
\* hold (the browser never gives an id twice).
NewId(ts, handle) ==
    CHOOSE n \in 1..(Len(ts) + 2) :
        /\ n # handle /\ \A i \in 1..Len(ts) : ts[i].id # n
        /\ \A m \in 1..(n - 1) : m = handle \/ \E i \in 1..Len(ts) : ts[i].id = m

setTimeout(ts, handle, kind, results) ==
    Append(ts, [id |-> NewId(ts, handle), kind |-> kind, results |-> results])

clearTimeout(ts, id) == SelectSeq(ts, LAMBDA t : t.id # id)

Remove(ts, i) == SubSeq(ts, 1, i - 1) \o SubSeq(ts, i + 1, Len(ts))

CanFire(ts, i) == \A j \in 1..(i - 1) : Delay(ts[j].kind) > Delay(ts[i].kind)

\* A variant of handleInputChange that clears no timer.
handleInputChangeNoClear(ts, handle) ==
    [timers |-> setTimeout(ts, handle, "calculate", NoResults),
     calculationTimeout |-> NewId(ts, handle)]

\* handleInputChange: the timers and this.calculationTimeout it leaves.
handleInputChange(ts, handle) ==
    LET cleared == clearTimeout(ts, handle)
    IN  [timers |-> setTimeout(cleared, handle, "calculate", NoResults),
         calculationTimeout |-> NewId(cleared, handle)]

\* displayResults: the timers it leaves.
displayResults(ts, handle, results) == setTimeout(ts, handle, "display", results)

(***************************************************************************)
(* The page: the state the constructor leaves, and one action per event    *)
(* listener and timer callback.                                            *)
(***************************************************************************)
Markup == [k |-> "markup", neg |-> FALSE, n |-> <<>>, d |-> <<1>>]

PageInit ==
    /\ value = setDefaultValues
    /\ errorClass = [input \in Fields |-> FALSE]
    /\ errorDiv = [input \in Fields |-> NoErrorDiv]
    /\ calculationTimeout = 0
    /\ timers = displayResults(<<>>, 0, Projection[getInputValues(setDefaultValues)])
    /\ shown = [monthlyPayment |-> Markup, totalSaved |-> Markup,
                interestEarned |-> Markup, finalAmount |-> Markup, width |-> Markup]

Init ==
    /\ PageInit
    /\ arg = <<>>
    /\ ret = [done |-> FALSE]

\* The 'input' listener: sanitizeInput, then handleInputChange.
Input(input, raw) ==
    /\ Len(clearTimeout(timers, calculationTimeout)) < MaxPending
    /\ value' = [value EXCEPT ![input] = sanitizeInput(input, raw)]
    /\ timers' = handleInputChange(timers, calculationTimeout).timers
    /\ calculationTimeout' = handleInputChange(timers, calculationTimeout).calculationTimeout
    /\ UNCHANGED <<errorClass, errorDiv, shown, arg, ret>>

\* The 'blur' listener.
Blur(input, minAttr, maxAttr) ==
    LET r == validateInput(input, minAttr, maxAttr, value, errorClass, errorDiv)
    IN  /\ value' = r.value
        /\ errorClass' = r.errorClass
        /\ errorDiv' = r.errorDiv
        /\ UNCHANGED <<timers, calculationTimeout, shown, arg, ret>>

\* The clear button's 'click' listener (the Escape key clicks the button).
ClearAll ==
    /\ Len(timers) < MaxPending
    /\ timers' = setTimeout(timers, calculationTimeout, "clearAll", NoResults)
    /\ UNCHANGED <<value, errorClass, errorDiv, calculationTimeout, shown, arg, ret>>

\* An example button's 'click' listener.
LoadExample(button) ==
    /\ Len(timers) < MaxPending
    /\ errorClass' = clearErrorClasses(errorClass)
    /\ errorDiv' = clearErrorDivs(errorDiv)
    /\ value' = [goalAmount |-> button.goal, timeHorizon |-> button.time,
                 annualReturn |-> button.return, currentSavings |-> <<"0">>]
    /\ timers' = displayResults(timers, calculationTimeout,
                                Projection[getInputValues(value')])
    /\ UNCHANGED <<calculationTimeout, shown, arg, ret>>

\* A variant of the debounce callback that calculates nothing.
CalculateTimeoutIdle(i) ==
    /\ timers[i].kind = "calculate"
    /\ CanFire(timers, i)
    /\ timers' = Remove(timers, i)
    /\ UNCHANGED <<value, errorClass, errorDiv, calculationTimeout, shown, arg, ret>>

\* The debounce callback: this.calculate().
CalculateTimeout(i) ==
    /\ timers[i].kind = "calculate"
    /\ CanFire(timers, i)
    /\ timers' = displayResults(Remove(timers, i), calculationTimeout,
                                Projection[getInputValues(value)])
    /\ UNCHANGED <<value, errorClass, errorDiv, calculationTimeout, shown, arg, ret>>

\* The callback of clearAll.
ClearAllTimeout(i) ==
    /\ timers[i].kind = "clearAll"
    /\ CanFire(timers, i)
    /\ value' = setDefaultValues
    /\ errorClass' = clearErrorClasses(errorClass)
    /\ errorDiv' = clearErrorDivs(errorDiv)
    /\ timers' = displayResults(Remove(timers, i), calculationTimeout,
                                Projection[getInputValues(value')])
    /\ UNCHANGED <<calculationTimeout, shown, arg, ret>>

\* The callback of displayResults.
DisplayTimeout(i) ==
    /\ timers[i].kind = "display"
    /\ CanFire(timers, i)
    /\ shown' = Rendered[timers[i].results]
    /\ timers' = Remove(timers, i)
    /\ UNCHANGED <<value, errorClass, errorDiv, calculationTimeout, arg, ret>>

Next ==
    \/ \E input \in Fields : \E raw \in Typed(input) : Input(input, raw)
    \/ \E input \in Fields, minAttr \in Attributes("min"), maxAttr \in Attributes("max") :
          Blur(input, minAttr, maxAttr)
    \/ ClearAll
    \/ \E button \in ExampleButtons : LoadExample(button)
    \/ \E i \in 1..Len(timers) : CalculateTimeout(i)
    \/ \E i \in 1..Len(timers) : ClearAllTimeout(i)
    \/ \E i \in 1..Len(timers) : DisplayTimeout(i)

Spec == Init /\ [][Next]_vars

(***************************************************************************)
(* Properties of the page.                                                 *)
(***************************************************************************)
Pending(kinds) == {i \in 1..Len(timers) : timers[i].kind \in kinds}

DefaultsShown == Rendered[Projection[getInputValues(setDefaultValues)]]

\* C2: in every reachable state at most one debounced computation is
\* pending, and it is the one this.calculationTimeout names: each keystroke
\* cancels the debounce timer before it sets the next.  (The delayed
\* computation of a reset is not cancelled and cancels nothing.)
C2_OneDebounce ==
    /\ Cardinality(Pending({"calculate"})) <= 1
    /\ \A i \in Pending({"calculate"}) : timers[i].id = calculationTimeout

\* A keystroke after a keystroke: one debounce timer, next to a reset's.
C2_Witness ==
    /\ Cardinality(Pending({"calculate"})) = 1
    /\ Cardinality(Pending({"clearAll"})) = 1
    /\ calculationTimeout > 1
    /\ \A i \in Pending({"calculate"}) : timers[i].id = calculationTimeout

\* At most one computation is scheduled and not yet run, counting the
\* debounced ones and the ones a reset delays.
C2_OnePending == Cardinality(Pending({"calculate", "clearAll"})) <= 1

C8_Quiescent ==
    timers = <<>> =>
        LET now == Rendered[Projection[getInputValues(value)]]
        IN  /\ shown.monthlyPayment = now.monthlyPayment
            /\ shown.totalSaved = now.totalSaved
            /\ shown.interestEarned = now.interestEarned
            /\ shown.finalAmount = now.finalAmount

\* Quiescent after typed savings on an example: neither the first
\* projection nor the example's remains shown.
C8_Witness ==
    /\ timers = <<>>
    /\ value["currentSavings"] = <<"5", "0">>
    /\ value["goalAmount"] # setDefaultValues["goalAmount"]
    /\ value["goalAmount"] # <<>>
    /\ calculationTimeout > 0
    /\ shown = Rendered[Projection[getInputValues(value)]]
    /\ shown # DefaultsShown

\* C10: whenever validateInput returns true for a field, the field has
\* neither the error class nor a shown message afterwards.
C10_ValidMeansNoError ==
    [][\A input \in Fields, minAttr \in Attributes("min"), maxAttr \in Attributes("max") :
          (/\ Blur(input, minAttr, maxAttr)
           /\ validateInput(input, minAttr, maxAttr, value, errorClass, errorDiv).ret)
              => ~errorClass'[input] /\ ~errorDiv'[input].show]_vars

(***************************************************************************)
(* calculate() alone: one call on each input of CalcArgs.                  *)
(***************************************************************************)
InitCalc ==
    /\ PageInit
    /\ arg \in CalcArgs
    /\ ret = [done |-> FALSE]

Calculate ==
    /\ ~ret.done
    /\ ret' = [done    |-> TRUE,
               in      |-> getInputValues(arg),
               results |-> Projection[getInputValues(arg)],
               shown   |-> Rendered[Projection[getInputValues(arg)]]]
    /\ UNCHANGED <<pageVars, arg>>

SpecCalc == InitCalc /\ [][Calculate]_vars

\* The inputs of CalcArgs that differ from arg in current savings only.
Siblings == {a \in CalcArgs : /\ a.goalAmount = arg.goalAmount
                              /\ a.timeHorizon = arg.timeHorizon
                              /\ a.annualReturn = arg.annualReturn}

\* C1: when goalAmount <= 0 or timeHorizon <= 0, calculate() yields exactly
\* monthlyPayment 0, totalSaved = the current savings as read (not capped by
\* the goal), interestEarned 0 and finalAmount = goalAmount, whatever the
\* rate and the current savings are.
C1_Degenerate ==
    (ret.done /\ (Le(ret.in.goalAmount, Zero) \/ Le(ret.in.timeHorizon, Zero)))
        => /\ ret.results.monthlyPayment = Zero
           /\ ret.results.totalSaved = ret.in.currentSavings
           /\ ret.results.interestEarned = Zero
           /\ ret.results.finalAmount = ret.in.goalAmount

C1_Witness ==
    /\ ret.done
    /\ Le(ret.in.timeHorizon, Zero)
    /\ Gt(ret.in.annualReturn, Zero)
    /\ Gt(ret.in.goalAmount, Zero)
    /\ Gt(ret.in.currentSavings, ret.in.goalAmount)
    /\ ret.results.totalSaved = ret.in.currentSavings

\* C3: with annualReturn = 0, goalAmount > 0, timeHorizon > 0 and
\* 0 <= currentSavings <= goalAmount, calculate() yields interestEarned = 0
\* and monthlyPayment = max(0, goalAmount - currentSavings) / (timeHorizon * 12).
C3_ZeroRate ==
    (/\ ret.done
     /\ IsZero(ret.in.annualReturn)
     /\ Gt(ret.in.goalAmount, Zero) /\ Gt(ret.in.timeHorizon, Zero)
     /\ Le(ret.in.currentSavings, ret.in.goalAmount))
        => /\ IsZero(ret.results.interestEarned)
           /\ NumEq(ret.results.monthlyPayment,
                    NumDiv(MathMax(Zero, NumSub(ret.in.goalAmount, ret.in.currentSavings)),
                           NumMul(ret.in.timeHorizon, Num(12))))

C3_Witness ==
    /\ ret.done
    /\ IsZero(ret.in.annualReturn)
    /\ Gt(ret.in.goalAmount, Zero) /\ Gt(ret.in.timeHorizon, Zero)
    /\ Gt(ret.in.currentSavings, Zero)
    /\ Lt(ret.in.currentSavings, ret.in.goalAmount)
    /\ Gt(ret.results.monthlyPayment, Zero)

\* C4: for fixed goalAmount, timeHorizon and annualReturn and two current
\* savings 0 <= s1 <= s2 <= goalAmount, the monthlyPayment computed for s2 is
\* not greater than the one computed for s1.
C4_Monotone ==
    ret.done =>
        \A a \in Siblings :
            LET other == getInputValues(a)
            IN  (Le(ret.in.currentSavings, other.currentSavings)
                   /\ Le(other.currentSavings, other.goalAmount))
                    => Le(Projection[other].monthlyPayment, ret.results.monthlyPayment)

C4_Witness ==
    /\ ret.done
    /\ Gt(ret.in.annualReturn, Zero)
    /\ \E a \in Siblings :
          LET other == getInputValues(a)
          IN  /\ Lt(ret.in.currentSavings, other.currentSavings)
              /\ Le(other.currentSavings, other.goalAmount)
              /\ Gt(Projection[other].monthlyPayment, Zero)
              /\ Lt(Projection[other].monthlyPayment, ret.results.monthlyPayment)

\* What the current savings of ret.in, capped by the goal, are worth at the
\* end of the horizon.
CappedSavingsGrown ==
    LET capped == MathMin(ret.in.currentSavings, ret.in.goalAmount)
    IN  IF Gt(ret.in.annualReturn, Zero)
        THEN NumMul(capped,
                    MathPow(NumAdd(Num(1), NumDiv(ret.in.annualReturn, Num(1200))),
                            NumMul(ret.in.timeHorizon, Num(12))))
        ELSE capped

RawChars == {"7", ".", "a"}

RawTexts == UNION {[1..n -> RawChars] : n \in 0..MaxRawLen}

InitSanitize ==
    /\ PageInit
    /\ arg \in [input : Fields, raw : RawTexts]
    /\ ret = [done |-> FALSE]

Sanitize ==
    /\ ~ret.done
    /\ ret' = [done |-> TRUE, value |-> sanitizeInput(arg.input, arg.raw)]
    /\ UNCHANGED <<pageVars, arg>>

SpecSanitize == InitSanitize /\ [][Sanitize]_vars

\* The number of characters after the first decimal point of a text.
FractionLen(t) ==
    IF \E i \in 1..Len(t) : t[i] = "."
    THEN Len(t) - (CHOOSE i \in 1..Len(t) : t[i] = "." /\ \A j \in 1..(i - 1) : t[j] # ".")
    ELSE 0

\* C6: whatever text is entered in the rate field, after sanitizeInput the
\* field's value has at most 2 characters after its decimal point, also when
\* the text entered has more than one decimal point.
C6_TwoDecimals ==
    (ret.done /\ arg.input = "annualReturn") => FractionLen(ret.value) <= 2

====
